---- MODULE Spec2Model ----
(***************************************************************************)
(* Model of duals.py: the Dual number class (forward-mode automatic        *)
(* differentiation) and the evaluator value_and_derivative_at_point.       *)
(*                                                                         *)
(* Python values are records tagged by "type":                             *)
(*   int / float : [type, n, d] the exact rational n/d in lowest terms,    *)
(*                 d > 0 (a float is modelled by the rational it stands    *)
(*                 for; rounding is not modelled)                          *)
(*   Dual        : [type |-> "Dual", real_part, dual_part]                 *)
(*   str         : [type |-> "str"], an operand that is no number          *)
(*   an exception instance RETURNED as a value:                            *)
(*                 [type |-> "NotImplementedError", op]                    *)
(*   an exception RAISED by an expression: [type |-> "raise", exc]         *)
(* Every operator is strict: an operand that is a raised exception is the  *)
(* outcome of the expression (Python's left-to-right propagation).         *)
(***************************************************************************)
EXTENDS Integers, Sequences, FiniteSets, TLC

VARIABLES x, y, point, op, result

args == <<x, y, point>>
vars == <<x, y, point, op, result>>

(* Bounds of the input sets. *)
MaxInt == 2
MaxPoint == 7

(* ------------------------------------------------------------------ *)
(* Exact rational arithmetic on pairs <<n, d>>, d > 0, lowest terms.   *)
(* ------------------------------------------------------------------ *)
Abs(i) == IF i < 0 THEN -i ELSE i

RECURSIVE Gcd(_, _)
Gcd(a, b) == IF b = 0 THEN a ELSE Gcd(b, a % b)

Norm(n, d) ==
    LET s == IF d < 0 THEN -1 ELSE 1
        g == Gcd(Abs(n), Abs(d))
    IN  <<(s * n) \div g, (s * d) \div g>>

QAdd(p, q) == Norm(p[1] * q[2] + q[1] * p[2], p[2] * q[2])
QSub(p, q) == Norm(p[1] * q[2] - q[1] * p[2], p[2] * q[2])
QMul(p, q) == Norm(p[1] * q[1], p[2] * q[2])
QDiv(p, q) == Norm(p[1] * q[2], p[2] * q[1])

RECURSIVE QPowNat(_, _)
QPowNat(p, k) == IF k = 0 THEN <<1, 1>> ELSE QMul(p, QPowNat(p, k - 1))

(* ------------------------------------------------------------------ *)
(* Python values.                                                      *)
(* ------------------------------------------------------------------ *)
PyInt(i) == [type |-> "int", n |-> i, d |-> 1]
PyFloat(n, d) == [type |-> "float", n |-> Norm(n, d)[1], d |-> Norm(n, d)[2]]
Str == [type |-> "str"]
NoneValue == [type |-> "None"]
Raise(e) == [type |-> "raise", exc |-> e]
NotImplementedError(o) == [type |-> "NotImplementedError", op |-> o]

IsRaise(v) == v.type = "raise"
IsDual(v) == v.type = "Dual"
IsNumber(v) == v.type \in {"int", "float"}

Q(v) == <<v.n, v.d>>
MkNum(t, q) == [type |-> t, n |-> q[1], d |-> q[2]]
ArithType(a, b) == IF a.type = "int" /\ b.type = "int" THEN "int" ELSE "float"
IsZero(v) == v.n = 0

(* a == b on Python numbers: numeric equality, 1 == 1.0 *)
NumEq(a, b) == IsNumber(a) /\ IsNumber(b) /\ Q(a) = Q(b)

Strict2(a, b, v) == IF IsRaise(a) THEN a ELSE IF IsRaise(b) THEN b ELSE v

PyAdd(a, b) ==
    IF IsRaise(a) THEN a ELSE IF IsRaise(b) THEN b
    ELSE IF IsNumber(a) /\ IsNumber(b) THEN MkNum(ArithType(a, b), QAdd(Q(a), Q(b)))
    ELSE Raise("TypeError")

PySub(a, b) ==
    IF IsRaise(a) THEN a ELSE IF IsRaise(b) THEN b
    ELSE IF IsNumber(a) /\ IsNumber(b) THEN MkNum(ArithType(a, b), QSub(Q(a), Q(b)))
    ELSE Raise("TypeError")

PyMul(a, b) ==
    IF IsRaise(a) THEN a ELSE IF IsRaise(b) THEN b
    ELSE IF IsNumber(a) /\ IsNumber(b) THEN MkNum(ArithType(a, b), QMul(Q(a), Q(b)))
    ELSE Raise("TypeError")

(* true division: always a float, ZeroDivisionError on a zero divisor *)
PyTrueDiv(a, b) ==
    IF IsRaise(a) THEN a ELSE IF IsRaise(b) THEN b
    ELSE IF IsNumber(a) /\ IsNumber(b)
         THEN IF IsZero(b) THEN Raise("ZeroDivisionError")
              ELSE MkNum("float", QDiv(Q(a), Q(b)))
    ELSE Raise("TypeError")

(* a ** b for an integral exponent b (b.d = 1) *)
PyPow(a, b) ==
    IF IsRaise(a) THEN a ELSE IF IsRaise(b) THEN b
    ELSE IF IsNumber(a) /\ IsNumber(b)
         THEN IF b.n >= 0
              THEN MkNum(ArithType(a, b), QPowNat(Q(a), b.n))
              ELSE IF IsZero(a) THEN Raise("ZeroDivisionError")
                   ELSE MkNum("float", QDiv(<<1, 1>>, QPowNat(Q(a), -b.n)))
    ELSE Raise("TypeError")

(* ------------------------------------------------------------------ *)
(* class Dual                                                          *)
(* ------------------------------------------------------------------ *)
Dual(real_part, dual_part) ==
    Strict2(real_part, dual_part,
            [type |-> "Dual", real_part |-> real_part, dual_part |-> dual_part])

Dual__add__(self, other) ==
    IF IsDual(other)
    THEN Dual(PyAdd(self.real_part, other.real_part),
              PyAdd(self.dual_part, other.dual_part))
    ELSE IF IsNumber(other)
    THEN Dual(PyAdd(self.real_part, other), self.dual_part)
    ELSE NotImplementedError("addition")

Dual__radd__(self, other) == Dual__add__(self, other)

Dual__sub__(self, other) ==
    IF IsDual(other)
    THEN Dual(PySub(self.real_part, other.real_part),
              PySub(self.dual_part, other.dual_part))
    ELSE IF IsNumber(other)
    THEN Dual(PySub(self.real_part, other), self.dual_part)
    ELSE NotImplementedError("subtraction")

Dual__rsub__(self, other) == Dual__sub__(self, other)

(* __mul__ with the scalar branch leaving dual_part unscaled *)
Dual__mul__ScalarUnscaled(self, other) ==
    IF IsDual(other)
    THEN Dual(PyMul(self.real_part, other.real_part),
              PyAdd(self.dual_part, other.dual_part))
    ELSE IF IsNumber(other)
    THEN Dual(PyMul(self.real_part, other), self.dual_part)
    ELSE NotImplementedError("multiplciation")

(* __mul__ with one cross term of the product dropped *)
Dual__mul__DroppedTerm(self, other) ==
    IF IsDual(other)
    THEN Dual(PyMul(self.real_part, other.real_part),
              PyMul(self.dual_part, other.real_part))
    ELSE IF IsNumber(other)
    THEN Dual(PyMul(self.real_part, other), PyMul(self.dual_part, other))
    ELSE NotImplementedError("multiplciation")

Dual__mul__(self, other) ==
    IF IsDual(other)
    THEN Dual(PyMul(self.real_part, other.real_part),
              PyAdd(self.dual_part, other.dual_part))
    ELSE IF IsNumber(other)
    THEN Dual(PyMul(self.real_part, other), PyMul(self.dual_part, other))
    ELSE NotImplementedError("multiplciation")

Dual__rmul__(self, other) == Dual__mul__(self, other)

(* __truediv__ with the sign of the quotient rule's numerator slipped *)
Dual__truediv__SignSlip(self, other) ==
    IF IsDual(other)
    THEN LET dual_numerator ==
                 PyAdd(PyMul(self.dual_part, other.real_part),
                       PyMul(other.dual_part, self.real_part))
             dual_denominator == PyPow(other.real_part, PyInt(2))
         IN  Strict2(dual_numerator, dual_denominator,
                     Dual(PyTrueDiv(self.real_part, other.real_part),
                          PyTrueDiv(dual_numerator, dual_denominator)))
    ELSE IF IsNumber(other)
    THEN Dual(PyTrueDiv(self.real_part, other), self.dual_part)
    ELSE NotImplementedError("division")

(* __truediv__ with a guard that answers a zero divisor with an
   (inf, nan) Dual instead of dividing *)
Dual__truediv__ZeroGuard(self, other) ==
    LET inf == MkNum("float", <<1, 0>>)
        nan == MkNum("float", <<0, 0>>)
    IN
    IF IsDual(other)
    THEN IF IsZero(other.real_part) THEN Dual(inf, nan)
         ELSE LET dual_numerator ==
                      PySub(PyMul(self.dual_part, other.real_part),
                            PyMul(other.dual_part, self.real_part))
                  dual_denominator == PyPow(other.real_part, PyInt(2))
              IN  Dual(PyTrueDiv(self.real_part, other.real_part),
                       PyTrueDiv(dual_numerator, dual_denominator))
    ELSE IF IsNumber(other)
    THEN IF IsZero(other) THEN Dual(inf, self.dual_part)
         ELSE Dual(PyTrueDiv(self.real_part, other), self.dual_part)
    ELSE NotImplementedError("division")

Dual__truediv__(self, other) ==
    IF IsDual(other)
    THEN LET dual_numerator ==
                 PySub(PyMul(self.dual_part, other.real_part),
                       PyMul(other.dual_part, self.real_part))
             dual_denominator == PyPow(other.real_part, PyInt(2))
         IN  Strict2(dual_numerator, dual_denominator,
                     Dual(PyTrueDiv(self.real_part, other.real_part),
                          PyTrueDiv(dual_numerator, dual_denominator)))
    ELSE IF IsNumber(other)
    THEN Dual(PyTrueDiv(self.real_part, other), self.dual_part)
    ELSE NotImplementedError("division")

Dual__rdiv__(self, other) ==
    IF IsDual(other)
    THEN Dual__truediv__(other, self)
    ELSE IF IsNumber(other)
    THEN Dual(PyTrueDiv(other, self.real_part),
              PyTrueDiv(PyInt(1), self.dual_part))
    ELSE NotImplementedError("division")

(* __pow__ with the exponent of the derivative term not decremented *)
Dual__pow__NoDecrement(self, other) ==
    IF IsNumber(other)
    THEN Dual(PyPow(self.real_part, other),
              PyMul(PyMul(other, self.dual_part),
                    PyPow(self.real_part, other)))
    ELSE NotImplementedError("power")

Dual__pow__(self, other) ==
    IF IsNumber(other)
    THEN Dual(PyPow(self.real_part, other),
              PyMul(PyMul(other, self.dual_part),
                    PyPow(self.real_part, PySub(other, PyInt(1)))))
    ELSE NotImplementedError("power")

(* The reflected methods class Dual defines.  __rdiv__ is the Python 2 name
   of reflected division: the / operator looks up __rtruediv__, which the
   class does not define. *)
ReflectedMethods == {"__radd__", "__rsub__", "__rmul__", "__rdiv__"}

(* left <operator> right with right a Dual and left an int, float or str:
   the left operand's own method returns NotImplemented for a Dual, so the
   interpreter calls the Dual's reflected method, and raises TypeError when
   the class defines none. *)
ReflectedExpr(method, left, right) ==
    IF method \notin ReflectedMethods THEN Raise("TypeError")
    ELSE IF method = "__radd__" THEN Dual__radd__(right, left)
    ELSE IF method = "__rsub__" THEN Dual__rsub__(right, left)
    ELSE IF method = "__rmul__" THEN Dual__rmul__(right, left)
    ELSE Dual__rdiv__(right, left)

(* left <operator> right as the interpreter evaluates it, strict in both
   operands. *)
BinExpr(name, left, right) ==
    IF IsRaise(left) THEN left ELSE IF IsRaise(right) THEN right
    ELSE IF IsDual(left)
    THEN CASE name = "add" -> Dual__add__(left, right)
           [] name = "sub" -> Dual__sub__(left, right)
           [] name = "mul" -> Dual__mul__(left, right)
           [] name = "truediv" -> Dual__truediv__(left, right)
           [] name = "pow" -> Dual__pow__(left, right)
    ELSE IF IsDual(right)
    THEN ReflectedExpr("__r" \o name \o "__", left, right)
    ELSE IF IsNumber(left) /\ IsNumber(right)
    THEN CASE name = "add" -> PyAdd(left, right)
           [] name = "sub" -> PySub(left, right)
           [] name = "mul" -> PyMul(left, right)
           [] name = "truediv" -> PyTrueDiv(left, right)
           [] name = "pow" -> PyPow(left, right)
    ELSE Raise("TypeError")

(* GeneralFunction("x**2 + 7*x - 18").function(x): the expression with the
   interpreter's precedence, ((x ** 2) + (7 * x)) - 18. *)
GeneralFunction_function(arg) ==
    BinExpr("sub",
            BinExpr("add",
                    BinExpr("pow", arg, PyInt(2)),
                    BinExpr("mul", PyInt(7), arg)),
            PyInt(18))

(* attribute access result.real_part: AttributeError on a value that has
   no such attribute *)
GetAttr(v, name) ==
    IF IsRaise(v) THEN v
    ELSE IF IsDual(v) THEN (IF name = "real_part" THEN v.real_part ELSE v.dual_part)
    ELSE Raise("AttributeError")

Tuple2(a, b) == Strict2(a, b, [type |-> "tuple", value |-> a, deriv |-> b])

value_and_derivative_at_point(pt) ==
    LET res == GeneralFunction_function(Dual(pt, PyInt(1)))
    IN  Tuple2(GetAttr(res, "real_part"), GetAttr(res, "dual_part"))

Ints == {PyInt(i) : i \in -MaxInt..MaxInt}
Floats == {PyFloat(i, 2) : i \in -MaxInt..MaxInt}
Scalars == Ints \cup Floats
Duals == {Dual(r, e) : r \in Scalars, e \in Scalars}
Operands == Duals \cup Scalars \cup {Str}
Points == {PyInt(i) : i \in -MaxPoint..MaxPoint} \cup Floats

(* The arguments of the one call of a run are drawn first; op and result
   record the operation applied to them and its outcome. *)
Init ==
    /\ op = "none"
    /\ result = NoneValue
    /\ \/ x \in Duals /\ y \in Operands /\ point = NoneValue
       \/ x = NoneValue /\ y = NoneValue /\ point \in Points

Idle == op = "none"

Add ==
    /\ Idle /\ IsDual(x)
    /\ op' = "add"
    /\ result' = BinExpr("add", x, y)
    /\ UNCHANGED args

Sub ==
    /\ Idle /\ IsDual(x)
    /\ op' = "sub"
    /\ result' = BinExpr("sub", x, y)
    /\ UNCHANGED args

Mul ==
    /\ Idle /\ IsDual(x)
    /\ op' = "mul"
    /\ result' = BinExpr("mul", x, y)
    /\ UNCHANGED args

TrueDiv ==
    /\ Idle /\ IsDual(x)
    /\ op' = "truediv"
    /\ result' = BinExpr("truediv", x, y)
    /\ UNCHANGED args

(* x ** y; the exponents drawn are integral (a fractional power is no
   rational) *)
Pow ==
    /\ Idle /\ IsDual(x)
    /\ IsNumber(y) => y.d = 1
    /\ op' = "pow"
    /\ result' = BinExpr("pow", x, y)
    /\ UNCHANGED args

(* The reflected expressions y + x, y - x, y * x, y / x with y on the left
   and no Dual. *)
RAdd ==
    /\ Idle /\ IsDual(x) /\ ~IsDual(y)
    /\ op' = "radd"
    /\ result' = BinExpr("add", y, x)
    /\ UNCHANGED args

RSub ==
    /\ Idle /\ IsDual(x) /\ ~IsDual(y)
    /\ op' = "rsub"
    /\ result' = BinExpr("sub", y, x)
    /\ UNCHANGED args

RMul ==
    /\ Idle /\ IsDual(x) /\ ~IsDual(y)
    /\ op' = "rmul"
    /\ result' = BinExpr("mul", y, x)
    /\ UNCHANGED args

RTrueDiv ==
    /\ Idle /\ IsDual(x) /\ ~IsDual(y)
    /\ op' = "rtruediv"
    /\ result' = BinExpr("truediv", y, x)
    /\ UNCHANGED args

(* the direct method call x.__rdiv__(y) *)
RDivCall ==
    /\ Idle /\ IsDual(x)
    /\ op' = "rdiv_call"
    /\ result' = Dual__rdiv__(x, y)
    /\ UNCHANGED args

Evaluate ==
    /\ Idle /\ IsNumber(point)
    /\ op' = "eval"
    /\ result' = value_and_derivative_at_point(point)
    /\ UNCHANGED args

Next ==
    \/ Add \/ Sub \/ Mul \/ TrueDiv \/ Pow
    \/ RAdd \/ RSub \/ RMul \/ RTrueDiv \/ RDivCall
    \/ Evaluate

Spec == Init /\ [][Next]_vars

(* ------------------------------------------------------------------ *)
(* Properties.  The right-hand sides are computed in exact rational    *)
(* arithmetic from the operands' fields.                               *)
(* ------------------------------------------------------------------ *)
XR == Q(x.real_part)
XD == Q(x.dual_part)
YR == Q(y.real_part)
YD == Q(y.dual_part)
Zero == <<0, 1>>
One == <<1, 1>>

(* the outcome is a Dual whose fields equal re and du *)
ResultIs(re, du) ==
    /\ IsDual(result)
    /\ Q(result.real_part) = re
    /\ Q(result.dual_part) = du

(* two outcomes are Duals equal in both fields *)
SameDual(a, b) ==
    /\ IsDual(a) /\ IsDual(b)
    /\ NumEq(a.real_part, b.real_part)
    /\ NumEq(a.dual_part, b.dual_part)

(* C1: product rule: for Duals X, Y the outcome of X * Y is
   (X.real * Y.real, X.real * Y.dual + Y.real * X.dual). *)
C1_ProductRule ==
    (op = "mul" /\ IsDual(y)) =>
        ResultIs(QMul(XR, YR), QAdd(QMul(XR, YD), QMul(YR, XD)))

(* C2: scalar promotion: for a scalar c (nonzero for division) X op c has
   the fields of X op Dual(c, 0) under the dual-dual rule, for op among
   add, sub, mul, div. *)
C2_ScalarPromotion ==
    (/\ op \in {"add", "sub", "mul", "truediv"}
     /\ IsNumber(y)
     /\ op = "truediv" => ~IsZero(y)) =>
        SameDual(result, BinExpr(op, x, Dual(y, PyInt(0))))

(* C3: reflected subtraction: for a scalar c, c - X is
   (c - X.real, -X.dual). *)
C3_ReflectedSub ==
    (op = "rsub" /\ IsNumber(y)) =>
        ResultIs(QSub(Q(y), XR), QSub(Zero, XD))

(* C4: reflected division: for a scalar c and X.real # 0, c / X is the
   Dual (c / X.real, -(c * X.dual) / X.real^2). *)
C4_ReflectedDiv ==
    (op = "rtruediv" /\ IsNumber(y) /\ XR # Zero) =>
        ResultIs(QDiv(Q(y), XR),
                 QDiv(QSub(Zero, QMul(Q(y), XD)), QMul(XR, XR)))

(* C5: an operand that is neither a Dual nor a number (for pow: an
   exponent that is no number, a Dual included) makes the operation raise
   an error instead of returning a value. *)
C5_UnsupportedRaises ==
    (\/ op \in {"add", "sub", "mul", "truediv"} /\ ~IsDual(y) /\ ~IsNumber(y)
     \/ op = "pow" /\ ~IsNumber(y)) =>
        IsRaise(result)

(* C6: quotient rule: for Duals X, Y with Y.real # 0, X / Y is the Dual
   whose real part times Y.real is X.real and whose dual part times
   Y.real^2 is X.dual * Y.real - Y.dual * X.real. *)
C6_QuotientRule ==
    (op = "truediv" /\ IsDual(y) /\ YR # Zero) =>
        /\ IsDual(result)
        /\ QMul(Q(result.real_part), YR) = XR
        /\ QMul(Q(result.dual_part), QMul(YR, YR))
               = QSub(QMul(XD, YR), QMul(YD, XR))

C6_Witness ==
    /\ op = "truediv" /\ IsDual(y)
    /\ XR = <<1, 1>> /\ XD = <<2, 1>> /\ YR = <<2, 1>> /\ YD = <<1, 1>>
    /\ ResultIs(<<1, 2>>, <<3, 4>>)

(* C7: the evaluator on x**2 + 7*x - 18 at an integer point p returns
   (p^2 + 7p - 18, 2p + 7); at p = 7 it returns (80, 21). *)
C7_EvaluatorValue ==
    (op = "eval" /\ point.type = "int") =>
        /\ result.type = "tuple"
        /\ Q(result.value) = <<point.n * point.n + 7 * point.n - 18, 1>>
        /\ Q(result.deriv) = <<2 * point.n + 7, 1>>
        /\ point.n = 7 => (Q(result.value) = <<80, 1>> /\ Q(result.deriv) = <<21, 1>>)

C7_Witness ==
    /\ op = "eval" /\ point = PyInt(7)
    /\ result.type = "tuple"
    /\ result.value = PyInt(80) /\ result.deriv = PyInt(21)

DivisorRealIsZero ==
    \/ IsDual(y) /\ IsZero(y.real_part)
    \/ IsNumber(y) /\ IsZero(y)

(* C8 as stated: dividing by a Dual whose real part is zero, or by the
   scalar zero, returns a Dual and raises nothing. *)
C8_DivZeroReturnsDual ==
    (op = "truediv" /\ DivisorRealIsZero) => IsDual(result)

(* C8 amended: dividing by a Dual whose real part is zero, or by the
   scalar zero, is not guarded and raises the interpreter's
   ZeroDivisionError; no Dual is returned. *)
C8_DivZeroRaises ==
    (op = "truediv" /\ DivisorRealIsZero) => result = Raise("ZeroDivisionError")

C8_Witness ==
    /\ op = "truediv" /\ IsDual(y) /\ IsZero(y.real_part)
    /\ XR # Zero /\ XD # Zero /\ YD # Zero
    /\ result = Raise("ZeroDivisionError")

(* C9: commutativity: X + Y = Y + X and X * Y = Y * X in both fields for
   Duals X, Y; for a scalar c the reflected c + X and c * X equal X + c and
   X * c in both fields. *)
C9_Commutativity ==
    /\ (op = "add" /\ IsDual(y)) => SameDual(result, BinExpr("add", y, x))
    /\ (op = "mul" /\ IsDual(y)) => SameDual(result, BinExpr("mul", y, x))
    /\ (op = "radd" /\ IsNumber(y)) =>
           /\ SameDual(result, BinExpr("add", x, y))
           /\ Q(result.real_part) = QAdd(Q(y), XR)
    /\ (op = "rmul" /\ IsNumber(y)) =>
           /\ SameDual(result, BinExpr("mul", x, y))
           /\ Q(result.real_part) = QMul(Q(y), XR)

C9_Witness ==
    /\ op = "mul" /\ IsDual(y)
    /\ XR # YR /\ XD # YD /\ XR # Zero /\ YR # Zero
    /\ SameDual(result, BinExpr("mul", y, x))

(* C10: power rule: for an integer exponent n >= 0 (X.real # 0 when n = 0)
   X ** n is (X.real^n, n * X.dual * X.real^(n-1)); X ** 1 has the fields
   of X and X ** 0 is (1, 0). *)
C10_PowerRule ==
    (/\ op = "pow" /\ y.type = "int" /\ y.n >= 0
     /\ y.n = 0 => XR # Zero) =>
        /\ IsDual(result)
        /\ Q(result.real_part) = QPowNat(XR, y.n)
        /\ y.n >= 1 =>
               Q(result.dual_part) = QMul(QMul(Q(y), XD), QPowNat(XR, y.n - 1))
        /\ y.n = 0 => ResultIs(One, Zero)
        /\ y.n = 1 => ResultIs(XR, XD)
        /\ y.n = 2 => ResultIs(QMul(XR, XR), QMul(<<2, 1>>, QMul(XD, XR)))

C10_Witness ==
    /\ op = "pow" /\ y = PyInt(0)
    /\ XR # Zero /\ XD # Zero
    /\ ResultIs(One, Zero)
====
